---- MODULE Spec2Model ----
(***************************************************************************)
(* Spectre (shwan6160/Spectre): the Color entity of src/index.js (canonical *)
(* Lab + alpha, six live views) and the LinearGradient container.          *)
(*                                                                         *)
(* Numbers: a finite JS number x is the integer x * Scale (fixed point,    *)
(* three decimals).  A JS value is a pair <<k, v>>: k = "num" (finite      *)
(* number v / Scale), "nan", "inf" (v = 1 or -1), "pct" (a Percent object  *)
(* whose value is v / Scale), "undef" (an omitted argument) or "str" (any  *)
(* other non-number).  Math.cbrt, **, Math.sqrt, Math.cos, Math.sin and    *)
(* Math.atan2 are computed in fixed point (bisection, Bhaskara's sine).    *)
(***************************************************************************)
EXTENDS Integers, Sequences, FiniteSets, TLC

Scale == 10 * 100

\* ------------------------------------------------------------ JS values
Num(v) == <<"num", v>>
NaN == <<"nan", 0>>
PosInf == <<"inf", 1>>
Undef == <<"undef", 0>>
Str == <<"str", 0>>
\* new Percent(p): the constructor accepts only numbers in [0,100]
Pct(p) == <<"pct", p>>

\* ToNumber, as applied by the arithmetic operators to an operand
ToNumber(x) == IF x[1] \in {"num", "inf"} THEN x ELSE NaN

\* ------------------------------------------------------------ fixed point
Abs(x) == IF x < 0 THEN -x ELSE x
Sgn(x) == IF x < 0 THEN -1 ELSE IF x > 0 THEN 1 ELSE 0
Min2(x, y) == IF x < y THEN x ELSE y
Max2(x, y) == IF x > y THEN x ELSE y
\* x / y rounded to the nearest integer (y > 0)
RDiv(x, y) == IF x >= 0 THEN (x + (y \div 2)) \div y ELSE -(((y \div 2) - x) \div y)
\* product of two fixed-point numbers; beyond 2^15 the first is split to stay in range
MulPos(x, y) == (x \div Scale) * y + RDiv((x % Scale) * y, Scale)
Mul(x, y) ==
    IF x >= 0 /\ x < 32768 /\ y >= 0 /\ y < 32768 THEN (x * y + Scale \div 2) \div Scale
    ELSE IF x >= 0 THEN MulPos(x, y) ELSE -MulPos(-x, y)
\* quotient of two fixed-point numbers
QuoPos(x, y) == (x \div y) * Scale + RDiv((x % y) * Scale, y)
Quo(x, y) ==
    IF y > 0 THEN (IF x >= 0 THEN QuoPos(x, y) ELSE -QuoPos(-x, y))
    ELSE (IF x >= 0 THEN -QuoPos(x, -y) ELSE QuoPos(-x, -y))
\* JS %: the remainder takes the sign of the dividend
Rem(x, m) == Sgn(x) * (Abs(x) % m)

Cube(t) == Mul(Mul(t, t), t)

RECURSIVE CbrtSearch(_, _, _)
CbrtSearch(t, lo, hi) ==
    IF hi - lo <= 1 THEN (IF Abs(Cube(hi) - t) < Abs(Cube(lo) - t) THEN hi ELSE lo)
    ELSE LET mid == (lo + hi) \div 2
         IN IF Cube(mid) <= t THEN CbrtSearch(t, mid, hi) ELSE CbrtSearch(t, lo, mid)
\* Math.cbrt; the root of t >= 1 is at most (t + 2) / 3
Cbrt(t) == Sgn(t) * CbrtSearch(Abs(t), 0, Max2(Scale, (Abs(t) + 2 * Scale) \div 3 + 1))

RECURSIVE SqrtSearch(_, _, _)
SqrtSearch(n, lo, hi) ==
    IF hi - lo <= 1 THEN (IF hi * hi <= n THEN hi ELSE lo)
    ELSE LET mid == (lo + hi) \div 2
         IN IF mid * mid <= n THEN SqrtSearch(n, mid, hi) ELSE SqrtSearch(n, lo, mid)
\* Math.sqrt(x * x + y * y), the squares taken in hundredths to stay in range
Hypot(x, y) ==
    LET xs == RDiv(x, 10)
        ys == RDiv(y, 10)
        n == xs * xs + ys * ys
    IN 10 * SqrtSearch(n, 0, Abs(xs) + Abs(ys) + 1)

Pow5(y) == Mul(Mul(Mul(Mul(y, y), y), y), y)
RECURSIVE Root5Search(_, _, _)
Root5Search(t, lo, hi) ==
    IF hi - lo <= 1 THEN (IF Abs(Pow5(hi) - t) < Abs(Pow5(lo) - t) THEN hi ELSE lo)
    ELSE LET mid == (lo + hi) \div 2
         IN IF Pow5(mid) <= t THEN Root5Search(t, mid, hi) ELSE Root5Search(t, lo, mid)
\* x ** 2.4 for x >= 0: x^2 * (x^2)^(1/5)
Pow24(x) ==
    LET x2 == Mul(x, x)
    IN Mul(x2, Root5Search(x2, 0, Max2(Scale, (x2 + 4 * Scale) \div 5 + 1)))
\* Math.sqrt of a fixed-point number
Sqrt(u) == SqrtSearch(u * Scale, 0, Max2(Scale, u))
\* u ** (1 / 2.4) for u >= 0: (u^(1/12))^5
InvPow24(u) == Pow5(Sqrt(Sqrt(Cbrt(u))))

\* Math.sin of an angle of [0, 180] degrees (Bhaskara I), angle in fixed point
SinHalf(d) ==
    LET x == RDiv(d, 100)
        p == x * (1800 - x)
    IN RDiv(2 * p * Scale, RDiv(4050000 - p, 2))
\* Math.sin and Math.cos of an angle of [0, 360) degrees
SinDeg(d) == IF d <= 180 * Scale THEN SinHalf(d) ELSE -SinHalf(d - 180 * Scale)
CosDeg(d) == SinDeg((d + 90 * Scale) % (360 * Scale))

RECURSIVE AtanSearch(_, _, _, _)
AtanSearch(opp, adj, lo, hi) ==
    IF hi - lo <= 1 THEN lo
    ELSE LET mid == (lo + hi) \div 2
         IN IF SinDeg(mid) * adj <= CosDeg(mid) * opp
            THEN AtanSearch(opp, adj, mid, hi) ELSE AtanSearch(opp, adj, lo, mid)
\* Math.atan2(y, x) * (180 / Math.PI), in (-180, 180]; arguments in hundredths
Atan2Deg(y, x) ==
    LET ys == RDiv(y, 10)
        xs == RDiv(x, 10)
        q == AtanSearch(Abs(ys), Abs(xs), 0, 90 * Scale)
    IN IF xs = 0 /\ ys = 0 THEN 0
       ELSE IF xs = 0 THEN Sgn(ys) * 90 * Scale
       ELSE IF ys = 0 THEN (IF xs > 0 THEN 0 ELSE 180 * Scale)
       ELSE IF xs > 0 THEN Sgn(ys) * q
       ELSE Sgn(ys) * (180 * Scale - q)

\* n / d as a fixed-point number (a decimal literal of the source)
Dec(n, d) == RDiv(n * Scale, d)

\* ------------------------------------------------------------ text
\* String(n) of a finite number: its sign, its whole part and the digits of its
\* fraction without trailing zeros
RECURSIVE FractionDigits(_, _)
FractionDigits(f, unit) ==
    IF f = 0 \/ unit = 0 THEN <<>>
    ELSE <<f \div unit>> \o FractionDigits(f % unit, unit \div 10)
NumberToString(n) ==
    <<"text", n < 0, Abs(n) \div Scale, FractionDigits(Abs(n) % Scale, Scale \div 10)>>
\* 10 ** decimals, as far as the grid resolves it
Pow10(decimals) == IF decimals = 0 THEN 1 ELSE IF decimals = 1 THEN 10 ELSE IF decimals = 2 THEN 100 ELSE Scale
\* Math.round(x * pow) / pow: halves go up
RoundTo(x, pow) == LET unit == Scale \div pow IN ((x + unit \div 2) \div unit) * unit

\* ------------------------------------------------------------ helpers
\* Color.#isFiniteNumber
isFiniteNumber(x) == x[1] = "num"
AllFinite(t) == \A f \in DOMAIN t : isFiniteNumber(t[f])
\* triples of finite numbers as the objects the conversions return
LabOf(t) == [l |-> Num(t[1]), a |-> Num(t[2]), b |-> Num(t[3])]
RgbOf(t) == [r |-> Num(t[1]), g |-> Num(t[2]), b |-> Num(t[3])]
HsvOf(t) == [h |-> Num(t[1]), s |-> Num(t[2]), v |-> Num(t[3])]
NaNLab == [l |-> NaN, a |-> NaN, b |-> NaN]
NaNRgb == [r |-> NaN, g |-> NaN, b |-> NaN]

\* Color.#clamp: Math.min(Math.max(value, min), max)
clamp(x, lo, hi) ==
    LET n == ToNumber(x)
    IN IF n[1] = "inf" THEN Num(IF n[2] > 0 THEN hi ELSE lo)
       ELSE IF n[1] = "num" THEN Num(Min2(Max2(n[2], lo), hi))
       ELSE NaN

\* value / 255
Div255(x) ==
    LET n == ToNumber(x)
    IN IF n[1] = "num" THEN Num(RDiv(n[2], 255)) ELSE n

\* Math.max(0, value)
MathMax0(x) ==
    LET n == ToNumber(x)
    IN IF n[1] = "num" THEN Num(Max2(0, n[2])) ELSE IF n[1] = "inf" /\ n[2] < 0 THEN Num(0) ELSE n

\* Color.#normHueDeg
normHueDegN(deg) == LET x == Rem(deg, 360 * Scale) IN IF x < 0 THEN x + 360 * Scale ELSE x
normHueDeg(x) == IF ~isFiniteNumber(x) THEN 0 ELSE normHueDegN(x[2])

\* ------------------------------------------------------------ conversion math (D65)
WHITE_D65 == [X |-> Dec(95047, 1000), Y |-> 100 * Scale, Z |-> Dec(108883, 1000)]
EPSILON == Dec(216, 24389)
KAPPA == RDiv(24389 * Scale, 27)

finv(t) == LET t3 == Cube(t) IN IF t3 > EPSILON THEN t3 ELSE Quo(116 * t - 16 * Scale, KAPPA)
labToXyzN(l, a, b) ==
    LET fy == RDiv(l + 16 * Scale, 116)
        fx == RDiv(a, 500) + fy
        fz == fy - RDiv(b, 200)
        xr == finv(fx)
        yr == IF l > Mul(KAPPA, EPSILON) THEN Cube(fy) ELSE Quo(l, KAPPA)
        zr == finv(fz)
    IN <<Mul(xr, WHITE_D65.X), Mul(yr, WHITE_D65.Y), Mul(zr, WHITE_D65.Z)>>

fLab(t) == IF t > EPSILON THEN Cbrt(t) ELSE RDiv(Mul(KAPPA, t) + 16 * Scale, 116)
xyzToLabN(X, Y, Z) ==
    LET fx == fLab(Quo(X, WHITE_D65.X))
        fy == fLab(Quo(Y, WHITE_D65.Y))
        fz == fLab(Quo(Z, WHITE_D65.Z))
    IN <<116 * fy - 16 * Scale, 500 * (fx - fy), 200 * (fy - fz)>>

linearToSrgb(u) ==
    IF u <= Dec(31308, 10000000) THEN Mul(Dec(1292, 100), u)
    ELSE Mul(Dec(1055, 1000), InvPow24(u)) - Dec(55, 1000)

srgbToLinear(u) ==
    IF u <= Dec(4045, 100000) THEN Quo(u, Dec(1292, 100))
    ELSE Pow24(Quo(u + Dec(55, 1000), Dec(1055, 1000)))

xyzToLinearRgbN(X, Y, Z) ==
    LET x == RDiv(X, 100)
        y == RDiv(Y, 100)
        z == RDiv(Z, 100)
    IN << Mul(Dec(32406, 10000), x) - Mul(Dec(15372, 10000), y) - Mul(Dec(4986, 10000), z),
          Mul(Dec(18758, 10000), y) - Mul(Dec(9689, 10000), x) + Mul(Dec(415, 10000), z),
          Mul(Dec(557, 10000), x) - Mul(Dec(2040, 10000), y) + Mul(Dec(10570, 10000), z) >>

linearRgbToXyzN(r, g, b) ==
    LET x == Mul(Dec(4124, 10000), r) + Mul(Dec(3576, 10000), g) + Mul(Dec(1805, 10000), b)
        y == Mul(Dec(2126, 10000), r) + Mul(Dec(7152, 10000), g) + Mul(Dec(722, 10000), b)
        z == Mul(Dec(193, 10000), r) + Mul(Dec(1192, 10000), g) + Mul(Dec(9505, 10000), b)
    IN <<x * 100, y * 100, z * 100>>

\* Color.#labToRgb; a non-finite channel makes X, Y or Z, and so every output, non-finite
labToRgb(c) ==
    LET n == [l |-> ToNumber(c.l), a |-> ToNumber(c.a), b |-> ToNumber(c.b)]
        xyz == labToXyzN(n.l[2], n.a[2], n.b[2])
        lin == xyzToLinearRgbN(xyz[1], xyz[2], xyz[3])
        ch(u) == Min2(Max2(linearToSrgb(u), 0), Scale) * 255
    IN IF AllFinite(n) THEN RgbOf(<<ch(lin[1]), ch(lin[2]), ch(lin[3])>>)
       ELSE NaNRgb

\* Color.#rgbToLab
rgbToLab(c) ==
    LET s == [r |-> clamp(Div255(c.r), 0, Scale), g |-> clamp(Div255(c.g), 0, Scale),
              b |-> clamp(Div255(c.b), 0, Scale)]
        xyz == linearRgbToXyzN(srgbToLinear(s.r[2]), srgbToLinear(s.g[2]), srgbToLinear(s.b[2]))
    IN IF AllFinite(s) THEN LabOf(xyzToLabN(xyz[1], xyz[2], xyz[3]))
       ELSE NaNLab

\* Math.atan2(y, x) * (180 / Math.PI) of two numbers; NaN when either is NaN
Atan2JS(y, x) ==
    IF y[1] = "nan" \/ x[1] = "nan" THEN NaN
    ELSE IF y[1] = "inf" /\ x[1] = "inf" THEN Num(y[2] * (IF x[2] > 0 THEN 45 ELSE 135) * Scale)
    ELSE IF y[1] = "inf" THEN Num(y[2] * 90 * Scale)
    ELSE IF x[1] = "inf" THEN Num(IF x[2] > 0 THEN 0 ELSE (IF y[2] < 0 THEN -180 ELSE 180) * Scale)
    ELSE Num(Atan2Deg(y[2], x[2]))

\* c and h of Color.#labToLch and Color.#oklabToOklch
PolarOf(a, b) ==
    LET x == ToNumber(a)
        y == ToNumber(b)
    IN [c |-> IF x[1] = "num" /\ y[1] = "num" THEN Num(Hypot(x[2], y[2]))
              ELSE IF x[1] = "nan" \/ y[1] = "nan" THEN NaN ELSE PosInf,
        h |-> Num(normHueDeg(Atan2JS(y, x)))]

\* a and b of Color.#lchToLab and Color.#oklchToOklab; Infinity * 0 is NaN
CartesianOf(c, h) ==
    LET hr == normHueDeg(h)
        n == ToNumber(c)
        times(t) == IF n[1] = "num" THEN Num(Mul(n[2], t))
                    ELSE IF n[1] = "nan" \/ t = 0 THEN NaN
                    ELSE <<"inf", n[2] * Sgn(t)>>
    IN [a |-> times(CosDeg(hr)), b |-> times(SinDeg(hr))]

\* Color.#labToLch
labToLch(c) == LET p == PolarOf(c.a, c.b) IN [l |-> c.l, c |-> p.c, h |-> p.h]

\* Color.#lchToLab
lchToLab(c) == LET q == CartesianOf(c.c, c.h) IN [l |-> c.l, a |-> q.a, b |-> q.b]

\* Color.#rgbToHsv
rgbToHsvN(rr, gg, bb) ==
    LET max == Max2(rr, Max2(gg, bb))
        min == Min2(rr, Min2(gg, bb))
        delta == max - min
        h == IF delta = 0 THEN 0
             ELSE IF max = rr THEN 60 * Rem(Quo(gg - bb, delta), 6 * Scale)
             ELSE IF max = gg THEN 60 * (Quo(bb - rr, delta) + 2 * Scale)
             ELSE 60 * (Quo(rr - gg, delta) + 4 * Scale)
    IN <<normHueDegN(h), IF max = 0 THEN 0 ELSE Quo(delta, max), max>>
rgbToHsv(c) ==
    LET s == [r |-> clamp(Div255(c.r), 0, Scale), g |-> clamp(Div255(c.g), 0, Scale),
              b |-> clamp(Div255(c.b), 0, Scale)]
    IN IF AllFinite(s) THEN HsvOf(rgbToHsvN(s.r[2], s.g[2], s.b[2]))
       \* Math.max and Math.min of a NaN are NaN: delta !== 0, no branch of h matches
       ELSE [h |-> Num(normHueDeg(NaN)), s |-> NaN, v |-> NaN]

\* Color.#hsvToRgb
hsvToRgbN(hh, ss, vv) ==
    LET c == Mul(vv, ss)
        x == Mul(c, Scale - Abs(Rem(RDiv(hh, 60), 2 * Scale) - Scale))
        m == vv - c
        t == IF hh < 60 * Scale THEN <<c, x, 0>>
             ELSE IF hh < 120 * Scale THEN <<x, c, 0>>
             ELSE IF hh < 180 * Scale THEN <<0, c, x>>
             ELSE IF hh < 240 * Scale THEN <<0, x, c>>
             ELSE IF hh < 300 * Scale THEN <<x, 0, c>>
             ELSE <<c, 0, x>>
    IN <<(t[1] + m) * 255, (t[2] + m) * 255, (t[3] + m) * 255>>
hsvToRgb(c) ==
    LET ss == clamp(c.s, 0, Scale)
        vv == clamp(c.v, 0, Scale)
    IN IF isFiniteNumber(ss) /\ isFiniteNumber(vv)
       THEN RgbOf(hsvToRgbN(normHueDeg(c.h), ss[2], vv[2]))
       ELSE NaNRgb

\* Color.#linearRgbToOklab (coefficients to four decimals)
linearRgbToOklabN(r, g, b) ==
    LET l_ == Cbrt(Mul(Dec(4122, 10000), r) + Mul(Dec(5363, 10000), g) + Mul(Dec(514, 10000), b))
        m_ == Cbrt(Mul(Dec(2119, 10000), r) + Mul(Dec(6807, 10000), g) + Mul(Dec(1074, 10000), b))
        s_ == Cbrt(Mul(Dec(883, 10000), r) + Mul(Dec(2817, 10000), g) + Mul(Dec(6300, 10000), b))
    IN << Mul(Dec(2105, 10000), l_) + Mul(Dec(7936, 10000), m_) - Mul(Dec(41, 10000), s_),
          Mul(Dec(19780, 10000), l_) - Mul(Dec(24286, 10000), m_) + Mul(Dec(4506, 10000), s_),
          Mul(Dec(259, 10000), l_) + Mul(Dec(7828, 10000), m_) - Mul(Dec(8087, 10000), s_) >>

\* Color.#oklabToLinearRgb
oklabToLinearRgbN(l, a, b) ==
    LET ll == Cube(l + Mul(Dec(3963, 10000), a) + Mul(Dec(2158, 10000), b))
        mm == Cube(l - Mul(Dec(1056, 10000), a) - Mul(Dec(639, 10000), b))
        ss == Cube(l - Mul(Dec(895, 10000), a) - Mul(Dec(12915, 10000), b))
    IN << Mul(Dec(40767, 10000), ll) - Mul(Dec(33077, 10000), mm) + Mul(Dec(2310, 10000), ss),
          Mul(Dec(26098, 10000), mm) - Mul(Dec(12684, 10000), ll) - Mul(Dec(3413, 10000), ss),
          Mul(Dec(17076, 10000), ss) - Mul(Dec(42, 10000), ll) - Mul(Dec(7034, 10000), mm) >>

\* Color.#labToOklab
labToOklab(c) ==
    LET n == [l |-> ToNumber(c.l), a |-> ToNumber(c.a), b |-> ToNumber(c.b)]
        xyz == labToXyzN(n.l[2], n.a[2], n.b[2])
        lin == xyzToLinearRgbN(xyz[1], xyz[2], xyz[3])
    IN IF AllFinite(n) THEN LabOf(linearRgbToOklabN(lin[1], lin[2], lin[3]))
       ELSE NaNLab

\* Color.#oklabToLab
oklabToLab(c) ==
    LET n == [l |-> ToNumber(c.l), a |-> ToNumber(c.a), b |-> ToNumber(c.b)]
        lin == oklabToLinearRgbN(n.l[2], n.a[2], n.b[2])
        xyz == linearRgbToXyzN(lin[1], lin[2], lin[3])
    IN IF AllFinite(n) THEN LabOf(xyzToLabN(xyz[1], xyz[2], xyz[3]))
       ELSE NaNLab

\* Color.#oklabToOklch
oklabToOklch(c) == LET p == PolarOf(c.a, c.b) IN [l |-> c.l, c |-> p.c, h |-> p.h]

\* Color.#oklchToOklab
oklchToOklab(c) == LET q == CartesianOf(c.c, c.h) IN [l |-> c.l, a |-> q.a, b |-> q.b]

\* Color.#formatNumber(value, decimals)
formatNumber(value, decimals) ==
    IF ~isFiniteNumber(value) THEN NumberToString(0)
    ELSE NumberToString(RoundTo(value[2], Pow10(decimals)))
\* `${Math.round(x)}`
RoundedText(x) == IF x[1] = "num" THEN NumberToString(RoundTo(x[2], 1)) ELSE <<"text", "NaN">>
\* x * 100
Times100(x) == IF x[1] = "num" THEN Num(x[2] * 100) ELSE x
\* x / 100
Over100(x) == IF x[1] = "num" THEN Num(RDiv(x[2], 100)) ELSE x

\* ------------------------------------------------------------ conversions, finer
\* The conversions between RGB and Lab once more on a grid of 1e-6, for finite
\* channels: a finite number x is the integer x * ScaleH.
ScaleH == Scale * Scale
\* product and quotient on the fine grid, the operands split to stay in range
MulHPos(x, y) ==
    LET x1 == x \div Scale
        x0 == x % Scale
        y1 == y \div Scale
        y0 == y % Scale
    IN x1 * y1 + RDiv(x1 * y0 + x0 * y1 + RDiv(x0 * y0, Scale), Scale)
MulH(x, y) == Sgn(x) * Sgn(y) * MulHPos(Abs(x), Abs(y))
RECURSIVE DivStep(_, _, _, _)
DivStep(q, r, y, unit) ==
    IF unit = 1 THEN q + (IF 2 * r >= y THEN 1 ELSE 0)
    ELSE DivStep(q * 10 + (r * 10) \div y, (r * 10) % y, y, unit \div 10)
DivH(x, y) == Sgn(x) * Sgn(y) * DivStep(Abs(x) \div Abs(y), Abs(x) % Abs(y), Abs(y), ScaleH)
CubeH(t) == MulH(MulH(t, t), t)
\* Math.cbrt(t) for t >= 0: the nearest number of the grid, by bisection
RECURSIVE CbrtHSearch(_, _, _)
CbrtHSearch(t, lo, hi) ==
    IF hi - lo <= 1 THEN (IF t - CubeH(lo) <= CubeH(hi) - t THEN lo ELSE hi)
    ELSE LET mid == (lo + hi) \div 2
         IN IF CubeH(mid) <= t THEN CbrtHSearch(t, mid, hi) ELSE CbrtHSearch(t, lo, mid)
CbrtH(t) == CbrtHSearch(t, 0, 2 * ScaleH)
\* Math.sqrt(t) for t >= 0
RECURSIVE SqrtHSearch(_, _, _)
SqrtHSearch(t, lo, hi) ==
    IF hi - lo <= 1 THEN (IF t - MulH(lo, lo) <= MulH(hi, hi) - t THEN lo ELSE hi)
    ELSE LET mid == (lo + hi) \div 2
         IN IF MulH(mid, mid) <= t THEN SqrtHSearch(t, mid, hi) ELSE SqrtHSearch(t, lo, mid)
SqrtH(t) == SqrtHSearch(t, 0, 2 * ScaleH)
\* t ** (1/5) for t >= 0
Pow5H(y) == LET y2 == MulH(y, y) IN MulH(MulH(y2, y2), y)
RECURSIVE Root5HSearch(_, _, _)
Root5HSearch(t, lo, hi) ==
    IF hi - lo <= 1 THEN (IF t - Pow5H(lo) <= Pow5H(hi) - t THEN lo ELSE hi)
    ELSE LET mid == (lo + hi) \div 2
         IN IF Pow5H(mid) <= t THEN Root5HSearch(t, mid, hi) ELSE Root5HSearch(t, lo, mid)
\* x ** 2.4 = x^2 * (x^(1/5))^2 for x >= 0
Pow24H(x) == LET r == Root5HSearch(x, 0, 2 * ScaleH) IN MulH(MulH(x, x), MulH(r, r))
\* u ** (1 / 2.4) = c * c^(1/4) with c = u^(1/3), for u >= 0
InvPow24H(u) == LET c == CbrtH(u) IN MulH(c, SqrtH(SqrtH(c)))

\* Color.#EPSILON = 216 / 24389
EPSILON_H == RDiv(216 * ScaleH, 24389)
\* Color.#labToXyz; KAPPA = 24389 / 27
finvH(t) ==
    LET t3 == CubeH(t)
    IN IF t3 > EPSILON_H THEN t3 ELSE RDiv((116 * t - 16 * ScaleH) * 27, 24389)
labToXyzH(l, a, b) ==
    LET fy == DivH(l + 16 * ScaleH, 116 * ScaleH)
        fx == RDiv(a, 500) + fy
        fz == fy - RDiv(b, 200)
        yr == IF l > 8 * ScaleH THEN CubeH(fy) ELSE RDiv(l * 27, 24389)
    IN <<MulH(finvH(fx), 95047 * Scale), yr * 100, MulH(finvH(fz), 108883 * Scale)>>
\* Color.#xyzToLab
fLabH(t) == IF t > EPSILON_H THEN CbrtH(t) ELSE RDiv(RDiv(24389 * t, 27) + 16 * ScaleH, 116)
xyzToLabH(X, Y, Z) ==
    LET fx == fLabH(DivH(X, 95047 * Scale))
        fy == fLabH(RDiv(Y, 100))
        fz == fLabH(DivH(Z, 108883 * Scale))
    IN <<116 * fy - 16 * ScaleH, 500 * (fx - fy), 200 * (fy - fz)>>
\* Color.#linearToSrgb
linearToSrgbH(u) ==
    IF u * 10 <= 31308 THEN RDiv(u * 1292, 100)
    ELSE MulH(1055 * Scale, InvPow24H(u)) - 55 * Scale
\* Color.#srgbToLinear
srgbToLinearH(u) ==
    IF u <= 40450 THEN RDiv(u * 100, 1292)
    ELSE Pow24H(DivH(u + 55 * Scale, 1055 * Scale))
\* Color.#xyzToLinearRgb
xyzToLinearRgbH(X, Y, Z) ==
    LET x == RDiv(X, 100)
        y == RDiv(Y, 100)
        z == RDiv(Z, 100)
    IN <<MulH(32406 * 100, x) + MulH(-15372 * 100, y) + MulH(-4986 * 100, z),
         MulH(-9689 * 100, x) + MulH(18758 * 100, y) + MulH(415 * 100, z),
         MulH(557 * 100, x) + MulH(-2040 * 100, y) + MulH(10570 * 100, z)>>
\* Color.#linearRgbToXyz
linearRgbToXyzH(r, g, b) ==
    <<100 * (MulH(4124 * 100, r) + MulH(3576 * 100, g) + MulH(1805 * 100, b)),
      100 * (MulH(2126 * 100, r) + MulH(7152 * 100, g) + MulH(722 * 100, b)),
      100 * (MulH(193 * 100, r) + MulH(1192 * 100, g) + MulH(9505 * 100, b))>>
\* Color.#labToRgb
labToRgbH(lab3) ==
    LET xyz == labToXyzH(lab3[1], lab3[2], lab3[3])
        lin == xyzToLinearRgbH(xyz[1], xyz[2], xyz[3])
        ch(u) == Min2(Max2(linearToSrgbH(u), 0), ScaleH) * 255
    IN <<ch(lin[1]), ch(lin[2]), ch(lin[3])>>
\* Color.#rgbToLab
rgbToLabH(rgb3) ==
    LET lin(v) == srgbToLinearH(Min2(Max2(RDiv(v, 255), 0), ScaleH))
        xyz == linearRgbToXyzH(lin(rgb3[1]), lin(rgb3[2]), lin(rgb3[3]))
    IN xyzToLabH(xyz[1], xyz[2], xyz[3])

\* ------------------------------------------------------------ input parsers
Ok(x) == [err |-> "none", val |-> x]
\* throw new Error("ValueError: ...") is "Error"; throw new TypeError(...) is "TypeError"
Throw(e) == [err |-> e, val |-> NaN]

\* parseAlpha without its range test on plain numbers
parseAlphaUnchecked(value) ==
    IF value[1] = "pct" THEN Ok(clamp(Num(RDiv(value[2], 100)), 0, Scale))
    ELSE IF isFiniteNumber(value) THEN Ok(value)
    ELSE Throw("TypeError")

\* Color.#parseAlpha
parseAlpha(value) ==
    IF value[1] = "pct" THEN Ok(clamp(Num(RDiv(value[2], 100)), 0, Scale))
    ELSE IF isFiniteNumber(value)
         THEN (IF value[2] >= 0 /\ value[2] <= Scale THEN Ok(value) ELSE Throw("Error"))
    ELSE Throw("TypeError")

\* Color.#parseUnit01
parseUnit01(value) ==
    IF value[1] = "pct" THEN Ok(clamp(Num(RDiv(value[2], 100)), 0, Scale))
    ELSE IF isFiniteNumber(value)
         THEN (IF value[2] >= 0 /\ value[2] <= Scale THEN Ok(value) ELSE Throw("Error"))
    ELSE Throw("TypeError")

\* parseLightness100 without the scaling of a fraction to 0..100
parseLightness100Unscaled(value) ==
    IF value[1] = "pct" THEN Ok(clamp(Num(value[2]), 0, 100 * Scale))
    ELSE IF isFiniteNumber(value) THEN (IF value[2] >= 0 /\ value[2] <= Scale THEN Ok(value) ELSE Throw("Error"))
    ELSE Throw("TypeError")

\* Color.#parseLightness100
parseLightness100(value) ==
    IF value[1] = "pct" THEN Ok(clamp(Num(value[2]), 0, 100 * Scale))
    ELSE IF isFiniteNumber(value)
         THEN (IF value[2] >= 0 /\ value[2] <= Scale THEN Ok(Num(value[2] * 100)) ELSE Throw("Error"))
    ELSE Throw("TypeError")

\* the test `if (!Color.#isFiniteNumber(value)) throw new TypeError(...)` of a channel
parseFinite(value) == IF isFiniteNumber(value) THEN Ok(value) ELSE Throw("TypeError")

\* a default parameter value: used when the argument is undefined
Default(arg, dflt) == IF arg[1] = "undef" THEN dflt ELSE arg

\* ------------------------------------------------------------ Color
\* The outcome of a handler on the color c = [lab, alpha]: the color it leaves and
\* the error it throws ("none" when it returns).
Outcome(l, al, e) == [lab |-> l, alpha |-> al, err |-> e]

\* set alpha(value)
SetAlpha(c, value) ==
    LET p == parseAlpha(value)
    IN IF p.err = "none" THEN Outcome(c.lab, p.val, "none") ELSE Outcome(c.lab, c.alpha, p.err)

\* The tail of every model.call: this.parent.#setLab(nextLab); this.parent.alpha = alpha
SetLabThenAlpha(c, nextLab, alphaArg) == SetAlpha([lab |-> nextLab, alpha |-> c.alpha], alphaArg)

\* a set trap of lab that also gives alpha its default
labSetDefaultAlpha(c, prop, value) ==
    IF prop = "alpha" THEN SetAlpha(c, value)
    ELSE IF prop = "l"
    THEN LET p == parseLightness100(value)
         IN IF p.err = "none" THEN Outcome([c.lab EXCEPT !.l = p.val], Num(Scale), "none")
            ELSE Outcome(c.lab, c.alpha, p.err)
    ELSE Outcome([c.lab EXCEPT ![prop] = value], Num(Scale), "none")

\* get lab(): target(l, a, b, alpha = 1) assigns proxy.l, proxy.a, proxy.b, parent.alpha in turn
labSet(c, prop, value) ==
    IF prop = "alpha" THEN SetAlpha(c, value)
    ELSE IF prop = "l"
    THEN LET p == parseLightness100(value)
         IN IF p.err = "none" THEN Outcome([c.lab EXCEPT !.l = p.val], c.alpha, "none")
            ELSE Outcome(c.lab, c.alpha, p.err)
    ELSE Outcome([c.lab EXCEPT ![prop] = value], c.alpha, "none")

LabDefaultAlpha(c) == Num(Scale)

labCall(c, l, a, b, al) ==
    LET s1 == labSet(c, "l", l)
        s2 == labSet(s1, "a", a)
        s3 == labSet(s2, "b", b)
    IN IF s1.err # "none" THEN s1 ELSE SetAlpha(s3, Default(al, LabDefaultAlpha(c)))

\* get rgb(): model.set and model.call
rgbSet(c, prop, value) ==
    LET current == labToRgb(c.lab)
        p == parseFinite(value)
    IN IF prop = "alpha" THEN SetAlpha(c, value)
       ELSE IF p.err # "none" THEN Outcome(c.lab, c.alpha, p.err)
       ELSE Outcome(rgbToLab([current EXCEPT ![prop] = p.val]), c.alpha, "none")

rgbCall(c, r, g, b, al) ==
    SetLabThenAlpha(c, rgbToLab([r |-> r, g |-> g, b |-> b]), Default(al, c.alpha))

\* get hsv()
hsvSet(c, prop, value) ==
    LET current == rgbToHsv(labToRgb(c.lab))
        p == IF prop = "h" THEN parseFinite(value) ELSE parseUnit01(value)
    IN IF prop = "alpha" THEN SetAlpha(c, value)
       ELSE IF p.err # "none" THEN Outcome(c.lab, c.alpha, p.err)
       ELSE Outcome(rgbToLab(hsvToRgb([current EXCEPT ![prop] = p.val])), c.alpha, "none")

hsvCall(c, h, s, v, al) ==
    LET ps == parseUnit01(s)
        pv == parseUnit01(v)
    IN IF ps.err # "none" THEN Outcome(c.lab, c.alpha, ps.err)
       ELSE IF pv.err # "none" THEN Outcome(c.lab, c.alpha, pv.err)
       ELSE SetLabThenAlpha(c, rgbToLab(hsvToRgb([h |-> h, s |-> ps.val, v |-> pv.val])),
                            Default(al, c.alpha))

\* get lch()
lchSet(c, prop, value) ==
    LET current == labToLch(c.lab)
        p == IF prop = "l" THEN parseLightness100(value) ELSE parseFinite(value)
        next == IF prop = "c" THEN MathMax0(p.val) ELSE p.val
    IN IF prop = "alpha" THEN SetAlpha(c, value)
       ELSE IF p.err # "none" THEN Outcome(c.lab, c.alpha, p.err)
       ELSE Outcome(lchToLab([current EXCEPT ![prop] = next]), c.alpha, "none")

lchCall(c, l, ch, h, al) ==
    LET pl == parseLightness100(l)
    IN IF pl.err # "none" THEN Outcome(c.lab, c.alpha, pl.err)
       ELSE SetLabThenAlpha(c, lchToLab([l |-> pl.val, c |-> MathMax0(ch), h |-> h]),
                            Default(al, c.alpha))

\* get oklab()
oklabSet(c, prop, value) ==
    LET current == labToOklab(c.lab)
        p == IF prop = "l" THEN parseUnit01(value) ELSE parseFinite(value)
    IN IF prop = "alpha" THEN SetAlpha(c, value)
       ELSE IF p.err # "none" THEN Outcome(c.lab, c.alpha, p.err)
       ELSE Outcome(oklabToLab([current EXCEPT ![prop] = p.val]), c.alpha, "none")

oklabCall(c, l, a, b, al) ==
    LET pl == parseUnit01(l)
    IN IF pl.err # "none" THEN Outcome(c.lab, c.alpha, pl.err)
       ELSE SetLabThenAlpha(c, oklabToLab([l |-> pl.val, a |-> a, b |-> b]), Default(al, c.alpha))

\* get oklch()
oklchSet(c, prop, value) ==
    LET current == oklabToOklch(labToOklab(c.lab))
        p == IF prop = "l" THEN parseUnit01(value) ELSE parseFinite(value)
        next == IF prop = "c" THEN MathMax0(p.val) ELSE p.val
    IN IF prop = "alpha" THEN SetAlpha(c, value)
       ELSE IF p.err # "none" THEN Outcome(c.lab, c.alpha, p.err)
       ELSE Outcome(oklabToLab(oklchToOklab([current EXCEPT ![prop] = next])), c.alpha, "none")

oklchCall(c, l, ch, h, al) ==
    LET pl == parseUnit01(l)
    IN IF pl.err # "none" THEN Outcome(c.lab, c.alpha, pl.err)
       ELSE SetLabThenAlpha(c, oklabToLab(oklchToOklab([l |-> pl.val, c |-> MathMax0(ch), h |-> h])),
                            Default(al, c.alpha))

\* ------------------------------------------------------------ reading a view
\* what the get and the toString of each view convert #lab to before they look
\* at a property
ConvertedOf(view, c) ==
    CASE view = "lab" -> c.lab
      [] view = "rgb" -> labToRgb(c.lab)
      [] view = "hsv" -> rgbToHsv(labToRgb(c.lab))
      [] view = "lch" -> labToLch(c.lab)
      [] view = "oklab" -> labToOklab(c.lab)
      [] view = "oklch" -> oklabToOklch(labToOklab(c.lab))

\* the css closure of lab and the toString of each model, on the converted channels
TextOf(view, v, alphaNow) ==
    LET a == formatNumber(alphaNow, 4)
    IN CASE view = "lab" ->
              <<"lab(", formatNumber(clamp(v.l, 0, 100 * Scale), 4), "% ",
                formatNumber(v.a, 4), " ", formatNumber(v.b, 4), " / ", a, ")">>
         [] view = "rgb" ->
              <<"rgb(", RoundedText(clamp(v.r, 0, 255 * Scale)), " ",
                RoundedText(clamp(v.g, 0, 255 * Scale)), " ",
                RoundedText(clamp(v.b, 0, 255 * Scale)), " / ", a, ")">>
         [] view = "hsv" ->
              <<"hsv(", formatNumber(v.h, 2), " ", formatNumber(Times100(v.s), 2), "% ",
                formatNumber(Times100(v.v), 2), "% / ", a, ")">>
         [] view = "lch" ->
              <<"lch(", formatNumber(clamp(v.l, 0, 100 * Scale), 4), "% ",
                formatNumber(v.c, 4), " ", formatNumber(v.h, 2), " / ", a, ")">>
         [] view = "oklab" ->
              <<"oklab(", formatNumber(Times100(v.l), 4), "% ",
                formatNumber(v.a, 5), " ", formatNumber(v.b, 5), " / ", a, ")">>
         [] view = "oklch" ->
              <<"oklch(", formatNumber(Times100(v.l), 4), "% ",
                formatNumber(v.c, 5), " ", formatNumber(v.h, 2), " / ", a, ")">>

viewToString(view, c) == TextOf(view, ConvertedOf(view, c), c.alpha)

\* the property prop on the converted channels: toString is a function that returns
\* the text, alpha and the channels are values (the l of lab and lch as a fraction),
\* every other property is undefined
PropertyOf(view, v, alphaNow, prop) ==
    IF prop = "toString" THEN <<"function", TextOf(view, v, alphaNow)>>
    ELSE IF prop = "alpha" THEN alphaNow
    ELSE IF prop \notin DOMAIN v THEN Undef
    ELSE IF prop = "l" /\ view \in {"lab", "lch"} THEN Over100(v.l)
    ELSE v[prop]

\* the get trap of a view
viewGet(view, c, prop) == PropertyOf(view, ConvertedOf(view, c), c.alpha, prop)

\* color.<view>.<name>(): the property is read, then called
viewMethod(view, c, name) ==
    LET f == viewGet(view, c, name)
    IN IF f[1] = "function" THEN Ok(f[2]) ELSE Throw("TypeError")

\* `${color.<view>}`: the Symbol.toPrimitive of the view returns the text
viewTemplate(view, c) == Ok(viewToString(view, c))

\* ------------------------------------------------------------ chroma-js scale
\* Colours are terms: <<"css", n>> a CSS string, <<"obj", n>> an object whose css()
\* returns <<"css", n>>, <<"chroma", n>> the chroma colour parsed from <<"css", n>>,
\* <<"mix", mode, c1, c2, num, den>> chroma.interpolate of two chroma colours at
\* num/den in mode, <<"ease", c, mode, how>> the string colorEaseOut returns.
\* chroma(x): a CSS string is parsed, a chroma colour is returned as it is
Chroma(css) == IF css[1] = "css" THEN <<"chroma", css[2]>> ELSE css
Interpolate(col1, col2, num, den, m) == <<"mix", m, Chroma(col1), Chroma(col2), num, den>>

\* the alpha channel a CSS string parses to
AlphaOfCss(name) ==
    CASE name = "transparent" -> 0
      [] name = "#ff000080" -> RDiv(128 * Scale, 255)
      [] OTHER -> Scale
\* color.alpha() of a chroma colour; interpolation blends alpha linearly in every mode
RECURSIVE AlphaOf(_)
AlphaOf(c) ==
    IF c[1] = "mix" THEN AlphaOf(c[3]) + RDiv((AlphaOf(c[4]) - AlphaOf(c[3])) * c[5], c[6])
    ELSE AlphaOfCss(c[2])

\* the loop of the scale over its breakpoints pn, for the clamped value tn (both
\* numerators over one denominator): the first breakpoint at or above tn gives its
\* colour, the last breakpoint gives its colour, an open interval interpolates
RECURSIVE ScaleLoop(_, _, _, _, _)
ScaleLoop(cols, pn, tn, m, i) ==
    IF tn <= pn[i] THEN Chroma(cols[i])
    ELSE IF i = Len(cols) THEN Chroma(cols[i])
    ELSE IF tn < pn[i + 1] THEN Interpolate(cols[i], cols[i + 1], tn - pn[i], pn[i + 1] - pn[i], m)
    ELSE ScaleLoop(cols, pn, tn, m, i + 1)

\* chroma.scale(colors).domain(domain).mode(m)(val), colors and domain of one length
\* and domain ascending: no colour at all leaves nothing to parse and throws, one
\* colour is doubled, a domain of zero width evaluates at t = 1 over evenly spread
\* breakpoints
ChromaScale(colors, domain, m, val) ==
    IF Len(colors) = 0 THEN Throw("Error")
    ELSE LET cols == IF Len(colors) = 1 THEN <<colors[1], colors[1]>> ELSE colors
             k == Len(cols)
             min == domain[1]
             max == domain[Len(domain)]
             fitted == Len(domain) = k /\ min # max
             pn == IF fitted THEN [i \in 1..k |-> domain[i] - min] ELSE [i \in 1..k |-> i - 1]
             tn == IF fitted THEN Min2(Max2(val - min, 0), max - min) ELSE k - 1
         IN Ok(ScaleLoop(cols, pn, tn, m, 1))

\* ------------------------------------------------------------ colorEaseOut
\* colorEaseOut(color1, color2, easedT, mode, doChromaCorrection): the scale of the
\* two colours over [0,1] at easedT, its oklch chroma multiplied by 1 + easedT (at
\* most 0.55) when its alpha is below color1's, serialized with css(mode)
colorEaseOut(color1, color2, easedT, mode, doChromaCorrection) ==
    LET newColor == ChromaScale(<<color1, color2>>, <<0, Scale>>, mode, easedT).val
    IN IF AlphaOf(newColor) < AlphaOf(color1)
       THEN <<"ease", newColor, mode, "chroma multiplied">>
       ELSE <<"ease", newColor, mode, "plain">>

\* ------------------------------------------------------------ LinearGradient
\* A gradient is [stops, angle, mode], a stop [color, pos] with pos a finite number.
\* the comparator (a, b) => a.pos - b.pos, with ties put first
ByPosTieFirst(a, b) == IF a.pos <= b.pos THEN -1 ELSE 1

\* the comparator (a, b) => a.pos - b.pos
ByPos(a, b) == a.pos - b.pos

\* Array.prototype.sort with ByPos: stable
RECURSIVE SortInsert(_, _)
SortInsert(sorted, x) ==
    IF sorted = <<>> THEN <<x>>
    ELSE IF ByPos(x, sorted[Len(sorted)]) < 0
    THEN Append(SortInsert(SubSeq(sorted, 1, Len(sorted) - 1), x), sorted[Len(sorted)])
    ELSE Append(sorted, x)
RECURSIVE ArraySort(_)
ArraySort(seq) ==
    IF seq = <<>> THEN <<>>
    ELSE SortInsert(ArraySort(SubSeq(seq, 1, Len(seq) - 1)), seq[Len(seq)])

\* new LinearGradient(stops, angle, mode)
LinearGradient(stopList, angleDeg, colorMode) ==
    [stops |-> ArraySort(stopList), angle |-> angleDeg, mode |-> colorMode]

\* addStop without the sort after the push
addStopUnsorted(g, color, pos) ==
    [g EXCEPT !.stops = Append(g.stops, [color |-> color, pos |-> pos])]

\* addStop(color, pos)
addStop(g, color, pos) ==
    [g EXCEPT !.stops = ArraySort(Append(g.stops, [color |-> color, pos |-> pos]))]

\* The arrays of stops told apart by identity: heap is the sequence of the arrays
\* made so far, and an array is named by its place in it.
\* a constructor that sorts a copy of the array given and keeps the copy
constructorOnCopy(heap, given) ==
    [heap |-> Append(heap, ArraySort(heap[given])), stops |-> Len(heap) + 1]

\* constructor(stops, ...): this.stops = stops keeps the array given itself, and
\* this.stops.sort(...) sorts that array where it is
constructorOn(heap, given) ==
    [heap |-> [heap EXCEPT ![given] = ArraySort(heap[given])], stops |-> given]

\* constructor(): the default stops = [] makes a new array at each call
constructorDefault(heap) == constructorOn(Append(heap, <<>>), Len(heap) + 1)

\* addStop(color, pos) on the array this.stops: push, then sort, both in place
addStopOn(heap, this, color, pos) ==
    [heap EXCEPT ![this] = ArraySort(Append(heap[this], [color |-> color, pos |-> pos]))]

\* the colour handed to chroma for a stop: s.color.css() when it has one
CssOf(color) == IF color[1] = "obj" THEN <<"css", color[2]>> ELSE color

\* getColorAt(pos)
getColorAt(g, pos) ==
    LET colors == [i \in 1..Len(g.stops) |-> CssOf(g.stops[i].color)]
        positions == [i \in 1..Len(g.stops) |-> g.stops[i].pos]
    IN ChromaScale(colors, positions, "lch", pos)

\* new Set([...]) then Array.from: the first occurrence of each position, in order
RECURSIVE Distinct(_)
Distinct(seq) ==
    IF seq = <<>> THEN <<>>
    ELSE LET front == Distinct(SubSeq(seq, 1, Len(seq) - 1))
             x == seq[Len(seq)]
         IN IF \E i \in 1..Len(front) : front[i] = x THEN front ELSE Append(front, x)

\* sort((a, b) => a - b) of positions
RECURSIVE SortAsc(_)
SortAsc(seq) ==
    IF seq = <<>> THEN <<>>
    ELSE LET rest == SortAsc(SubSeq(seq, 1, Len(seq) - 1))
             x == seq[Len(seq)]
             n == Cardinality({i \in 1..Len(rest) : rest[i] <= x})
         IN SubSeq(rest, 1, n) \o <<x>> \o SubSeq(rest, n + 1, Len(rest))

PositionsOf(g) == [i \in 1..Len(g.stops) |-> g.stops[i].pos]

\* scale(grad)(t) that resamples at this gradient's positions only
scaleOwnPositions(g, grad, t) ==
    LET newDeg == g.angle + Mul(grad.angle - g.angle, t)
        sortedPositions == SortAsc(Distinct(PositionsOf(g)))
        colorA == [i \in 1..Len(sortedPositions) |-> getColorAt(g, sortedPositions[i])]
        colorB == [i \in 1..Len(sortedPositions) |-> getColorAt(grad, sortedPositions[i])]
        newStops == [i \in 1..Len(sortedPositions) |->
                        [color |-> colorEaseOut(colorA[i].val, colorB[i].val, t, "rgb", FALSE),
                         pos |-> sortedPositions[i]]]
    IN IF \E i \in 1..Len(sortedPositions) : colorA[i].err # "none" \/ colorB[i].err # "none"
       THEN Throw("Error")
       ELSE Ok(LinearGradient(newStops, newDeg, grad.mode))

\* scale(grad)(t)
scale(g, grad, t) ==
    LET newDeg == g.angle + Mul(grad.angle - g.angle, t)
        sortedPositions == SortAsc(Distinct(PositionsOf(g) \o PositionsOf(grad)))
        colorA == [i \in 1..Len(sortedPositions) |-> getColorAt(g, sortedPositions[i])]
        colorB == [i \in 1..Len(sortedPositions) |-> getColorAt(grad, sortedPositions[i])]
        newStops == [i \in 1..Len(sortedPositions) |->
                        [color |-> colorEaseOut(colorA[i].val, colorB[i].val, t, "rgb", FALSE),
                         pos |-> sortedPositions[i]]]
    IN IF \E i \in 1..Len(sortedPositions) : colorA[i].err # "none" \/ colorB[i].err # "none"
       THEN Throw("Error")
       ELSE Ok(LinearGradient(newStops, newDeg, grad.mode))

\* a stop whose pos is the array [pos, pos2] has the field pos2
IsArrayPos(stop) == "pos2" \in DOMAIN stop

\* formatPos of css(): (val <= 1 ? val * 100 : val) + '%'
formatPos(val) == <<NumberToString(IF val <= Scale THEN val * 100 ELSE val), "%">>

\* length(stop.pos) in css(): the module defines no length; a host whose global
\* object has a numeric length (a window) fails the call, any other the lookup
lengthCall(host) == IF host = "window" THEN "TypeError" ELSE "ReferenceError"

\* css(mode) on host
css(g, colorModeGiven, host) ==
    LET colorMode == IF colorModeGiven = "" THEN g.mode ELSE colorModeGiven
        c(stop) == IF stop.color[1] = "obj" THEN <<"css", stop.color[2], colorMode>>
                   ELSE stop.color
        stopStr == [i \in 1..Len(g.stops) |-> <<c(g.stops[i]), formatPos(g.stops[i].pos)>>]
    IN IF Len(g.stops) = 0 THEN Ok(<<"none">>)
       ELSE IF \E i \in 1..Len(g.stops) : IsArrayPos(g.stops[i]) THEN Throw(lengthCall(host))
       ELSE Ok(<<"linear-gradient(", NumberToString(g.angle), "deg in ", colorMode, ", ",
                 stopStr, ")">>)

\* ------------------------------------------------------------ inputs
MaxSteps == 2

Half == Scale \div 2
\* values offered to a channel with a declared domain (alpha, lightness, s, v): a
\* number inside it, a number outside it, a non-finite number, a Percent
UnitVals == {Num(Half), Num(2 * Scale), NaN, Pct(40 * Scale)}
\* values offered to a channel without one
FreeVals(n) == {Num(n), NaN}
\* the alpha argument of a call: omitted, valid, out of range
CallAlphas == {Undef, Num(Scale \div 4), Num(2 * Scale)}

\* the values assigned to the alpha property of a view
ViewAlphas == {Num(Half), Num(2 * Scale)}

Views == {"lab", "rgb", "hsv", "lch", "oklab", "oklch"}
Props(view) ==
    CASE view = "lab" -> <<"l", "a", "b">>
      [] view = "rgb" -> <<"r", "g", "b">>
      [] view = "hsv" -> <<"h", "s", "v">>
      [] view = "lch" -> <<"l", "c", "h">>
      [] view = "oklab" -> <<"l", "a", "b">>
      [] view = "oklch" -> <<"l", "c", "h">>
\* the channels validated by parseLightness100 or parseUnit01
IsUnitProp(view, prop) ==
    \/ prop = "alpha"
    \/ prop = "l" /\ view # "rgb"
    \/ view = "hsv" /\ prop \in {"s", "v"}
\* a typical in-range number of each free channel
Typical(view, prop) ==
    CASE view = "rgb" -> 128 * Scale
      [] view = "lab" -> 20 * Scale
      [] prop = "h" -> 200 * Scale
      [] view = "lch" -> 30 * Scale
      [] OTHER -> Scale \div 10
ValsFor(view, prop) == IF IsUnitProp(view, prop) THEN UnitVals ELSE FreeVals(Typical(view, prop))

\* lab, alpha: the fields #lab and #alpha of one Color; prev: the two before the
\* last operation on it; last: that operation and the error it threw; steps: the
\* operations so far.
\* stops, angle, mode: the fields of one LinearGradient; prevStops: its stops before
\* the last operation on it; glast: that operation; result: what it returned.
\* call, ret: the last call of a function of the library that touches neither
\* object, and what it returned.
\* arrays, refs, hlast: the arrays of stops by identity, the array each of two
\* gradients holds as this.stops and the argument it was constructed with, and the
\* last operation on them with the arrays as they were before it.
VARIABLES lab, alpha, prev, last, steps, stops, angle, mode, prevStops, glast, result,
          call, ret, arrays, refs, hlast

colorVars == <<lab, alpha, prev, last, steps>>
gradVars == <<stops, angle, mode, prevStops, glast, result>>
callVars == <<call, ret>>
heapVars == <<arrays, refs, hlast>>
vars == <<lab, alpha, prev, last, steps, stops, angle, mode, prevStops, glast, result,
          call, ret, arrays, refs, hlast>>

Color == [lab |-> lab, alpha |-> alpha]

\* new Color()
InitColor ==
    /\ lab = [l |-> Num(0), a |-> Num(0), b |-> Num(0)]
    /\ alpha = Num(Scale)
    /\ prev = [lab |-> [l |-> Num(0), a |-> Num(0), b |-> Num(0)], alpha |-> Num(Scale)]
    /\ last = [view |-> "none", kind |-> "none", prop |-> "none", args |-> <<>>, err |-> "none"]
    /\ steps = 0

NoColor == <<"css", "none">>
NoGradient == [stops |-> <<>>, angle |-> 0, mode |-> "none"]
GOp(op, given, color, pos, grad, t) ==
    [op |-> op, given |-> given, color |-> color, pos |-> pos, grad |-> grad, t |-> t]

\* new LinearGradient(given, angleDeg, colorMode)
Constructed(given, angleDeg, colorMode) ==
    LET g == LinearGradient(given, angleDeg, colorMode)
    IN /\ stops = g.stops
       /\ angle = g.angle
       /\ mode = g.mode
       /\ prevStops = <<>>
       /\ glast = GOp("new", given, NoColor, 0, NoGradient, 0)
       /\ result = Ok(Undef)

\* no function called yet
NoCall == call = [fn |-> "none", args |-> <<>>] /\ ret = Undef

\* the gradients told apart by their arrays, and the operations on them
Gradients == {"g1", "g2"}
NotBuilt == [arg |-> "none", stops |-> 0]
HOp(op, g, arg, color, pos, before) ==
    [op |-> op, g |-> g, arg |-> arg, color |-> color, pos |-> pos, before |-> before]

\* no array made yet, no gradient holding one
NoArrays ==
    /\ arrays = <<>>
    /\ refs = [g \in Gradients |-> NotBuilt]
    /\ hlast = HOp("none", "none", "none", NoColor, 0, <<>>)

\* a Color, beside a gradient made with the constructor's defaults
Init == InitColor /\ Constructed(<<>>, 180 * Scale, "rgb") /\ NoCall /\ NoArrays

Apply(view, kind, prop, args, out) ==
    /\ steps < MaxSteps
    /\ lab' = out.lab
    /\ alpha' = out.alpha
    /\ prev' = Color
    /\ last' = [view |-> view, kind |-> kind, prop |-> prop, args |-> args, err |-> out.err]
    /\ steps' = steps + 1
    /\ UNCHANGED gradVars
    /\ UNCHANGED callVars
    /\ UNCHANGED heapVars

CallOf(view, c, x, y, z, al) ==
    CASE view = "lab" -> labCall(c, x, y, z, al)
      [] view = "rgb" -> rgbCall(c, x, y, z, al)
      [] view = "hsv" -> hsvCall(c, x, y, z, al)
      [] view = "lch" -> lchCall(c, x, y, z, al)
      [] view = "oklab" -> oklabCall(c, x, y, z, al)
      [] view = "oklch" -> oklchCall(c, x, y, z, al)

SetOf(view, c, prop, value) ==
    CASE view = "lab" -> labSet(c, prop, value)
      [] view = "rgb" -> rgbSet(c, prop, value)
      [] view = "hsv" -> hsvSet(c, prop, value)
      [] view = "lch" -> lchSet(c, prop, value)
      [] view = "oklab" -> oklabSet(c, prop, value)
      [] view = "oklch" -> oklchSet(c, prop, value)

\* color.alpha = value
AlphaSet ==
    \E value \in UnitVals :
        Apply("color", "set", "alpha", <<value>>, SetAlpha(Color, value))

\* the arguments offered to a call: a typical valid call (x, y, z, alpha) and every
\* call that differs from it in one argument
TypicalCall(view) ==
    [i \in 1..4 |-> IF i = 4 THEN Num(Scale \div 4)
                    ELSE IF IsUnitProp(view, Props(view)[i]) THEN Num(Half)
                    ELSE Num(Typical(view, Props(view)[i]))]
CallArgs(view) ==
    {TypicalCall(view)}
    \cup {[TypicalCall(view) EXCEPT ![4] = al] : al \in CallAlphas}
    \cup UNION {{[TypicalCall(view) EXCEPT ![i] = x] : x \in ValsFor(view, Props(view)[i])} : i \in 1..3}

\* color.<view>(x, y, z [, alpha])
ViewCall(view) ==
    \E t \in CallArgs(view) :
        Apply(view, "call", "none", t, CallOf(view, Color, t[1], t[2], t[3], t[4]))

\* color.<view>.<prop> = value
ViewSet(view) ==
    \E i \in 1..4 :
        LET prop == IF i = 4 THEN "alpha" ELSE Props(view)[i]
        IN \E value \in IF i = 4 THEN ViewAlphas ELSE ValsFor(view, prop) :
            Apply(view, "set", prop, <<value>>, SetOf(view, Color, prop, value))

Next ==
    \/ AlphaSet
    \/ \E view \in Views : ViewCall(view)
    \/ \E view \in Views : ViewSet(view)

Spec == Init /\ [][Next]_vars

\* ------------------------------------------------------------ gradient inputs
MaxInitial == 2
MaxStops == 3

StopColors == {<<"css", "red">>, <<"obj", "blue">>}
StopPositions == {0, Half, Scale}
StopValues == [color : StopColors, pos : StopPositions]
\* the stop lists handed to the constructor, in any order
InitialLists == UNION {[1..n -> StopValues] : n \in 0..MaxInitial}
\* the angle and mode handed to the constructor
Settings == {<<0, "rgb">>, <<90 * Scale, "lch">>}
\* the positions asked of getColorAt: below, at, between and above the stops
QueryPositions == {0 - Half, 0, Scale \div 4, Half, Scale, Scale + Half}
\* the gradients morphed toward
Red == <<"css", "red">>
Blue == <<"obj", "blue">>
OtherGradients ==
    {LinearGradient(<<>>, 180 * Scale, "rgb"),
     LinearGradient(<<[color |-> Blue, pos |-> Half]>>, 180 * Scale, "lch"),
     LinearGradient(<<[color |-> Red, pos |-> Scale], [color |-> Blue, pos |-> Scale \div 4]>>,
                    45 * Scale, "lch"),
     LinearGradient(<<[color |-> Red, pos |-> Half], [color |-> Blue, pos |-> Half],
                      [color |-> Red, pos |-> 0]>>, 270 * Scale, "rgb")}
Progress == {Scale \div 4, Scale}

This == [stops |-> stops, angle |-> angle, mode |-> mode]

InitGrad ==
    /\ InitColor
    /\ NoCall
    /\ NoArrays
    /\ \E given \in InitialLists, setting \in Settings :
           Constructed(given, setting[1], setting[2])

\* gradient.addStop(color, pos)
AddStop ==
    \E color \in StopColors, pos \in StopPositions :
        /\ Len(stops) < MaxStops
        /\ stops' = addStop(This, color, pos).stops
        /\ prevStops' = stops
        /\ glast' = GOp("addStop", <<>>, color, pos, NoGradient, 0)
        /\ result' = Ok(Undef)
        /\ UNCHANGED <<angle, mode>>
        /\ UNCHANGED colorVars
        /\ UNCHANGED callVars
        /\ UNCHANGED heapVars

\* gradient.getColorAt(pos)
GetColorAt ==
    \E pos \in QueryPositions :
        /\ result' = getColorAt(This, pos)
        /\ prevStops' = stops
        /\ glast' = GOp("getColorAt", <<>>, NoColor, pos, NoGradient, 0)
        /\ UNCHANGED <<stops, angle, mode>>
        /\ UNCHANGED colorVars
        /\ UNCHANGED callVars
        /\ UNCHANGED heapVars

\* gradient.scale(grad)(t)
Morph ==
    \E grad \in OtherGradients, t \in Progress :
        /\ result' = scale(This, grad, t)
        /\ prevStops' = stops
        /\ glast' = GOp("scale", <<>>, NoColor, 0, grad, t)
        /\ UNCHANGED <<stops, angle, mode>>
        /\ UNCHANGED colorVars
        /\ UNCHANGED callVars
        /\ UNCHANGED heapVars

NextGrad == AddStop \/ GetColorAt \/ Morph

SpecGrad == InitGrad /\ [][NextGrad]_vars

\* ------------------------------------------------------------ gradients on one array
\* the arrays a caller hands over: empty, out of order, and with two stops at one
\* position
ShareLists ==
    {<<>>,
     <<[color |-> Red, pos |-> Scale], [color |-> Blue, pos |-> 0]>>,
     <<[color |-> Blue, pos |-> Half], [color |-> Red, pos |-> Half]>>}
\* the stops added afterwards
ShareStops ==
    {[color |-> Red, pos |-> 0], [color |-> Blue, pos |-> Half], [color |-> Red, pos |-> Half]}

\* const list = [...]: the caller's array is the first array made
InitShare ==
    /\ InitColor
    /\ Constructed(<<>>, 180 * Scale, "rgb")
    /\ NoCall
    /\ \E list \in ShareLists : arrays = <<list>>
    /\ refs = [g \in Gradients |-> NotBuilt]
    /\ hlast = HOp("none", "none", "none", NoColor, 0, <<>>)

Built(g, arg, made) ==
    /\ refs[g] = NotBuilt
    /\ arrays' = made.heap
    /\ refs' = [refs EXCEPT ![g] = [arg |-> arg, stops |-> made.stops]]
    /\ hlast' = HOp("new", g, arg, NoColor, 0, arrays)
    /\ UNCHANGED colorVars
    /\ UNCHANGED gradVars
    /\ UNCHANGED callVars

\* g = new LinearGradient(list)
NewOnGiven == \E g \in Gradients : Built(g, "given", constructorOn(arrays, 1))

\* g = new LinearGradient()
NewOnDefault == \E g \in Gradients : Built(g, "default", constructorDefault(arrays))

\* g.addStop(color, pos)
AddStopOn ==
    \E g \in Gradients, stop \in ShareStops :
        /\ refs[g] # NotBuilt
        /\ Len(arrays[refs[g].stops]) < MaxStops
        /\ arrays' = addStopOn(arrays, refs[g].stops, stop.color, stop.pos)
        /\ hlast' = HOp("addStop", g, refs[g].arg, stop.color, stop.pos, arrays)
        /\ UNCHANGED refs
        /\ UNCHANGED colorVars
        /\ UNCHANGED gradVars
        /\ UNCHANGED callVars

NextShare == NewOnGiven \/ NewOnDefault \/ AddStopOn

SpecShare == InitShare /\ [][NextShare]_vars

\* ------------------------------------------------------------ utils.js
\* utils.js computes in binary floating point, and its model keeps the rounding of
\* each operation, at a reduced precision: a finite number is an integer count of
\* units of 1/FloatUnit, exact while its magnitude is below FloatLimit units and
\* beyond that kept to as many significant bits as FloatLimit has (a double has 53);
\* a sum or product is rounded to the nearest such number, ties to even.
FloatUnit == 2^10
FloatLimit == 2^12
Flt(n) == <<"flt", n>>
NegInf == <<"inf", -1>>

\* the spacing of the numbers at magnitude m
RECURSIVE SpacingOf(_, _)
SpacingOf(m, u) == IF m < FloatLimit * u THEN u ELSE SpacingOf(m, 2 * u)
\* n rounded to a multiple of u, ties to even
RoundToEven(n, u) ==
    LET q == Abs(n) \div u
        r == Abs(n) % u
    IN Sgn(n) * u * (IF 2 * r > u \/ (2 * r = u /\ q % 2 = 1) THEN q + 1 ELSE q)
\* x + y
AddF(x, y) == RoundToEven(x + y, SpacingOf(Abs(x + y), 1))
\* x * y: the exact product counts units of 1/FloatUnit^2
MulF(x, y) ==
    RoundToEven(x * y, Max2(FloatUnit, SpacingOf(Abs(x * y), 1))) \div FloatUnit
\* the number nearest to a decimal given in tenths
FloatOf(tenths) == AddF(RDiv(tenths * FloatUnit, 10), 0)

\* isFiniteNumber of utils.js, for values that are not functions
utils_isFiniteNumber(value) == value[1] = "flt"

\* normHueDeg of utils.js
utils_normHueDeg(deg) ==
    IF ~utils_isFiniteNumber(deg) THEN 0
    ELSE LET x == Rem(deg[2], 360 * FloatUnit)
         IN IF x < 0 THEN AddF(x, 360 * FloatUnit) ELSE x

\* a delta that is the plain difference of the normalized hues
lerpAngleDeltaPlain(a, b) == AddF(utils_normHueDeg(b), -utils_normHueDeg(a))

\* the delta of lerpAngleDeg: ((((b0 - a0) % 360) + 540) % 360) - 180
lerpAngleDelta(a, b) ==
    LET a0 == utils_normHueDeg(a)
        b0 == utils_normHueDeg(b)
    IN AddF(Rem(AddF(Rem(AddF(b0, -a0), 360 * FloatUnit), 540 * FloatUnit), 360 * FloatUnit),
            -180 * FloatUnit)

\* lerpAngleDeg(a, b, t)
lerpAngleDeg(a, b, t) ==
    LET a0 == utils_normHueDeg(a)
        delta == lerpAngleDelta(a, b)
    IN utils_normHueDeg(Flt(AddF(a0, MulF(delta, t))))

\* a call of a function leaves the Color and the gradient alone
Called(fn, args, value) ==
    /\ call' = [fn |-> fn, args |-> args]
    /\ ret' = value
    /\ UNCHANGED colorVars
    /\ UNCHANGED gradVars
    /\ UNCHANGED heapVars

\* ------------------------------------------------------------ css() calls
\* positions read as fractions (<= 1) and as percentages (> 1)
CssPositions == {0, Half, Scale, 50 * Scale}
CssStops == [color : StopColors, pos : CssPositions]
\* a stop with the two positions [0.2, 0.4]
TwoPositions == [color |-> Red, pos |-> Scale \div 5, pos2 |-> 2 * (Scale \div 5)]
CssLists == UNION {[1..n -> CssStops] : n \in 0..MaxInitial} \cup {<<TwoPositions>>}
CssModes == {"", "oklch"}
Hosts == {"window", "module"}

InitCss ==
    /\ InitColor
    /\ NoCall
    /\ NoArrays
    /\ \E given \in CssLists, setting \in Settings :
           Constructed(given, setting[1], setting[2])

\* gradient.css(mode)
Css ==
    \E colorModeGiven \in CssModes, host \in Hosts :
        Called("css", <<colorModeGiven, host>>, css(This, colorModeGiven, host))

SpecCss == InitCss /\ [][Css]_vars

\* ------------------------------------------------------------ reading a view
\* the colors read: a new Color, then after color.lab(0.5, 20, -30, 0.25), then
\* after color.lab(0.9, -40, 60)
NewColor == [lab |-> [l |-> Num(0), a |-> Num(0), b |-> Num(0)], alpha |-> Num(Scale)]
ViewColors ==
    {NewColor}
    \cup {LET c == labCall(NewColor, Num(t[1]), Num(t[2]), Num(t[3]), t[4])
          IN [lab |-> c.lab, alpha |-> c.alpha] :
            t \in {<<Half, 20 * Scale, -30 * Scale, Num(Scale \div 4)>>,
                   <<9 * (Scale \div 10), -40 * Scale, 60 * Scale, Undef>>}}
ReadProps == {"l", "b", "h", "alpha", "css"}
MethodNames == {"css", "toString"}

InitView ==
    /\ \E c \in ViewColors :
           /\ lab = c.lab
           /\ alpha = c.alpha
           /\ prev = c
    /\ last = [view |-> "none", kind |-> "none", prop |-> "none", args |-> <<>>, err |-> "none"]
    /\ steps = 0
    /\ Constructed(<<>>, 180 * Scale, "rgb")
    /\ NoCall
    /\ NoArrays

\* color.<view>.<prop>
ViewGet ==
    \E view \in Views, prop \in ReadProps :
        Called("get", <<view, prop>>, Ok(viewGet(view, Color, prop)))

\* color.<view>.<name>()
ViewMethod ==
    \E view \in Views, name \in MethodNames :
        Called("method", <<view, name>>, viewMethod(view, Color, name))

\* `${color.<view>}`
ViewTemplate ==
    \E view \in Views : Called("template", <<view>>, viewTemplate(view, Color))

NextView == ViewGet \/ ViewMethod \/ ViewTemplate

SpecView == InitView /\ [][NextView]_vars

\* ------------------------------------------------------------ round trips
\* the channels of the RGB triples converted
RgbChannels == {0, 64 * ScaleH, 128 * ScaleH, 255 * ScaleH}

\* a triple r, g, b to convert
InitTrip ==
    /\ InitColor
    /\ Constructed(<<>>, 180 * Scale, "rgb")
    /\ NoArrays
    /\ \E r \in RgbChannels, g \in RgbChannels, b \in RgbChannels :
           call = [fn |-> "input", args |-> <<r, g, b>>]
    /\ ret = Undef

\* labToRgb(rgbToLab({r, g, b}))
RgbLabRgb ==
    Called("labToRgb(rgbToLab)", call.args, labToRgbH(rgbToLabH(call.args)))

\* rgbToLab(labToRgb(lab)) of lab = rgbToLab({r, g, b}), kept with lab
LabRgbLab ==
    LET lab3 == rgbToLabH(call.args)
    IN Called("rgbToLab(labToRgb)", call.args, <<lab3, rgbToLabH(labToRgbH(lab3))>>)

NextTrip == RgbLabRgb \/ LabRgbLab

SpecTrip == InitTrip /\ [][NextTrip]_vars

\* ------------------------------------------------------------ utils.js calls
\* hues below, inside and above one turn, in tenths of a degree, some of them half
\* a turn apart
HueTenths == {-3700, -3588, -1900, -100, 0, 12, 100, 1700, 1800, 3500, 3552, 3600, 7250}
Hues == {Flt(FloatOf(d)) : d \in HueTenths}
\* finite numbers of every magnitude, and values that are not finite numbers
AnyNumbers == Hues \cup {Flt(1), Flt(-1), Flt(2^30), Flt(-(2^30)), NaN, PosInf, NegInf, Undef}
HueProgress == {FloatOf(0), FloatOf(2), FloatOf(5), FloatOf(10)}

\* normHueDeg(deg)
NormHue == \E deg \in AnyNumbers : Called("normHueDeg", <<deg>>, utils_normHueDeg(deg))

\* lerpAngleDeg(a, b, t)
LerpAngle ==
    \E a \in Hues, b \in Hues, t \in HueProgress :
        Called("lerpAngleDeg", <<a, b, t>>, lerpAngleDeg(a, b, t))

NextHue == NormHue \/ LerpAngle

SpecHue == Init /\ [][NextHue]_vars

\* ------------------------------------------------------------ colorEaseOut calls
\* the colours blended: opaque, half transparent, fully transparent
EaseColors == {<<"chroma", "red">>, <<"chroma", "blue">>, <<"chroma", "#ff000080">>,
               <<"chroma", "transparent">>}
EaseProgress == {0, Scale \div 4, Half, Scale}
EaseModes == {"rgb", "lch", "oklch"}

\* colorEaseOut(color1, color2, easedT, mode, doChromaCorrection)
EaseOut ==
    \E color1 \in EaseColors, color2 \in EaseColors, easedT \in EaseProgress,
       colorMode \in EaseModes, doChromaCorrection \in BOOLEAN :
        Called("colorEaseOut", <<color1, color2, easedT, colorMode, doChromaCorrection>>,
               colorEaseOut(color1, color2, easedT, colorMode, doChromaCorrection))

SpecEase == Init /\ [][EaseOut]_vars
\* ------------------------------------------------------------ properties of Color
\* the last operation was a write through a view
ViewWrite == last.view \in Views
\* the value offered to CIE lightness by the last operation, a write through lab or lch
LightnessWrite ==
    /\ last.view \in {"lab", "lch"}
    /\ last.kind = "call" \/ (last.kind = "set" /\ last.prop = "l")
\* a channel value of the last write is not a finite number
NonFiniteChannel ==
    \/ last.kind = "set" /\ last.prop # "alpha" /\ last.args[1][1] \in {"nan", "inf", "undef"}
    \/ last.kind = "call" /\ \E i \in 1..3 : last.args[i][1] \in {"nan", "inf", "undef"}

\* C1: a write through a view that raises an error leaves L, a, b and alpha exactly
\* as they were before it.
C1_FailedWriteLeavesState ==
    (ViewWrite /\ last.err # "none") => (lab = prev.lab /\ alpha = prev.alpha)

\* C2: in every reachable state the stored alpha is a number in [0,1].
C2_AlphaInUnitInterval ==
    alpha[1] = "num" /\ alpha[2] >= 0 /\ alpha[2] <= Scale

\* a Percent was stored as alpha after an out-of-range number had been refused
C2_Witness ==
    /\ steps = 2
    /\ last.prop = "alpha" /\ last.args[1] = Pct(40 * Scale) /\ last.err = "none"
    /\ alpha = Num((2 * Scale) \div 5)
    /\ prev.alpha = Num(Scale)

\* C3: for every view, a call that omits the alpha argument leaves alpha equal to
\* its value before the call.
C3_OmittedAlphaKept ==
    (ViewWrite /\ last.kind = "call" /\ last.args[4] = Undef) => alpha = prev.alpha

\* C4: a write through a view in which some channel value is not a finite number
\* raises a TypeError instead of storing it, so L, a, b are finite in every
\* reachable state.
C4_NonFiniteRejected ==
    /\ (ViewWrite /\ NonFiniteChannel) => last.err = "TypeError"
    /\ AllFinite(lab)

\* C5: after a successful write of lightness through the lab or lch view, L lies in
\* [0,100]: a plain number in [0,1] is stored as 100 times the number, a Percent as
\* its value, and a plain number outside [0,1] is rejected.
C5_LightnessStored ==
    LightnessWrite =>
        LET value == last.args[1]
        IN /\ last.err = "none" =>
                /\ lab.l[1] = "num" /\ lab.l[2] >= 0 /\ lab.l[2] <= 100 * Scale
                /\ value[1] = "num" => lab.l[2] = 100 * value[2]
                /\ value[1] = "pct" => lab.l[2] = value[2]
           /\ (value[1] = "num" /\ (value[2] < 0 \/ value[2] > Scale)) =>
                (last.err = "Error" /\ lab.l = prev.lab.l)

\* lch.l was assigned a Percent after lab.l had been assigned a fraction
C5_Witness ==
    /\ steps = 2
    /\ last.view = "lch" /\ last.kind = "set" /\ last.prop = "l"
    /\ last.args[1] = Pct(40 * Scale) /\ last.err = "none"
    /\ lab.l = Num(40 * Scale)
    /\ prev.lab.l = Num(50 * Scale)
\* a plain number outside [0,1]
OutOfUnit(value) == value[1] = "num" /\ (value[2] < 0 \/ value[2] > Scale)
\* the last operation assigned value to alpha, to s or v of hsv, or to l of oklab
UnitChannelSet ==
    /\ last.kind = "set"
    /\ \/ last.prop = "alpha"
       \/ last.view = "hsv" /\ last.prop \in {"s", "v"}
       \/ last.view = "oklab" /\ last.prop = "l"

\* C16: a plain number outside [0,1] assigned to alpha, saturation, value or OKLab
\* lightness is rejected with a RangeError, and nothing is clamped or stored.
C16_OutOfRangeIsRangeError ==
    (UnitChannelSet /\ OutOfUnit(last.args[1])) =>
        /\ last.err = "RangeError"
        /\ lab = prev.lab /\ alpha = prev.alpha
\* C18: for every view, in every state of the Color, the css() method of the view
\* succeeds and returns the text that `${view}` returns.
C18_CssMethodIsTemplate ==
    (call.fn = "method" /\ call.args[2] = "css") =>
        /\ ret.err = "none"
        /\ ret = viewTemplate(call.args[1], Color)

\* C19: an RGB triple with channels in [0,255] converted to Lab and back returns
\* each channel within 1e-4 of the original, and the Lab of such a triple converted
\* to RGB and back returns each channel within 1e-4.
C19_RoundTrips ==
    /\ call.fn = "labToRgb(rgbToLab)" =>
           \A i \in 1..3 : Abs(ret[i] - call.args[i]) <= ScaleH \div 10000
    /\ call.fn = "rgbToLab(labToRgb)" =>
           \A i \in 1..3 : Abs(ret[2][i] - ret[1][i]) <= ScaleH \div 10000

\* C20: a successful write of alpha alone, through color.alpha or the alpha of any
\* view, leaves L, a and b unchanged; a successful write of l, a or b alone through
\* the lab view leaves the other two Lab channels and alpha unchanged.
C20_SingleWriteFrame ==
    /\ (last.kind = "set" /\ last.prop = "alpha" /\ last.err = "none") => lab = prev.lab
    /\ (last.view = "lab" /\ last.kind = "set" /\ last.prop \in {"l", "a", "b"}
            /\ last.err = "none") =>
           /\ alpha = prev.alpha
           /\ \A q \in {"l", "a", "b"} \ {last.prop} : lab[q] = prev.lab[q]

\* lab.a was assigned on a Color whose L and alpha an earlier call had set
C20_Witness ==
    /\ steps = 2
    /\ last.view = "lab" /\ last.kind = "set" /\ last.prop = "a" /\ last.err = "none"
    /\ lab.a = Num(20 * Scale) /\ prev.lab.a # Num(20 * Scale)
    /\ lab.l = prev.lab.l /\ lab.l # Num(0)
    /\ alpha = Num(Scale \div 4)

C7_AddStopKeepsInsertionOrder ==
    glast.op = "addStop" =>
        \E k \in 1..Len(stops) :
            /\ stops[k] = [color |-> glast.color, pos |-> glast.pos]
            /\ \A j \in 1..Len(stops) : stops[j].pos = glast.pos => j <= k
            /\ Len(prevStops) = Len(stops) - 1
            /\ \A j \in 1..Len(prevStops) : prevStops[j] = IF j < k THEN stops[j] ELSE stops[j + 1]

\* a stop was added at the position two stops of different colours already share
C7_Witness ==
    /\ glast.op = "addStop"
    /\ Len(prevStops) = 2
    /\ prevStops[1].pos = glast.pos /\ prevStops[2].pos = glast.pos
    /\ prevStops[1].color # prevStops[2].color
    /\ glast.color # prevStops[2].color
    /\ stops = Append(prevStops, [color |-> glast.color, pos |-> glast.pos])

\* C8: getColorAt strictly inside a stop interval interpolates the two bounding
\* stops in the gradient's own mode, the one given at construction.
C8_InterpolatesInOwnMode ==
    (glast.op = "getColorAt" /\ result.err = "none" /\ result.val[1] = "mix") =>
        result.val[2] = mode

\* C9: getColorAt at or below the smallest stop position returns the first stop's
\* colour, and at or above the largest stop position the last stop's colour.
C9_ExtremesReturnEndStops ==
    (glast.op = "getColorAt" /\ Len(stops) > 0) =>
        /\ glast.pos <= stops[1].pos =>
               result = Ok(Chroma(CssOf(stops[1].color)))
        /\ glast.pos >= stops[Len(stops)].pos =>
               result = Ok(Chroma(CssOf(stops[Len(stops)].color)))

\* C10: scale(grad)(t) returns a gradient whose angle is angle + (grad.angle - angle) * t
\* and whose stops are one per distinct position among the stops of both gradients,
\* ascending, each coloured colorEaseOut(this.getColorAt(pos), grad.getColorAt(pos), t).
C10_MorphResamplesUnion ==
    (glast.op = "scale" /\ result.err = "none") =>
        LET g == result.val
            both == {stops[i].pos : i \in 1..Len(stops)}
                        \cup {glast.grad.stops[i].pos : i \in 1..Len(glast.grad.stops)}
        IN /\ g.angle * Scale = angle * Scale + (glast.grad.angle - angle) * glast.t
           /\ Len(g.stops) = Cardinality(both)
           /\ {g.stops[i].pos : i \in 1..Len(g.stops)} = both
           /\ \A i \in 1..(Len(g.stops) - 1) : g.stops[i].pos < g.stops[i + 1].pos
           /\ \A i \in 1..Len(g.stops) :
                  g.stops[i].color = colorEaseOut(getColorAt(This, g.stops[i].pos).val,
                                                  getColorAt(glast.grad, g.stops[i].pos).val,
                                                  glast.t, "rgb", FALSE)

\* two gradients that share one position and differ in others were morphed a
\* quarter of the way
C10_Witness ==
    /\ glast.op = "scale" /\ result.err = "none"
    /\ glast.t = Scale \div 4
    /\ Len(stops) = 3 /\ Len(glast.grad.stops) = 3
    /\ stops[1].pos = 0 /\ stops[2].pos = Half /\ stops[3].pos = Scale
    /\ Len(result.val.stops) = 3
    /\ result.val.angle # angle /\ result.val.angle # glast.grad.angle
\* ------------------------------------------------------------ properties of colorEaseOut
\* C11: the chroma correction of colorEaseOut is opt-in: with doChromaCorrection
\* false or omitted the result is the plain blend, even when the blended alpha is
\* lower than the first colour's alpha.
C11_CorrectionIsOptIn ==
    (call.fn = "colorEaseOut" /\ call.args[5] = FALSE) => ret[4] = "plain"
\* ------------------------------------------------------------ properties of utils.js
OneTurn == 360 * FloatUnit
\* the distance of two hues of [0,360] around the circle
AroundCircle(x, y) == Min2(Abs(x - y), OneTurn - Abs(x - y))
\* the spacing of the numbers just below 360
HueSpacing == SpacingOf(OneTurn - 1, 1)

\* C12: for all finite hues a and b the delta of lerpAngleDeg lies in [-180, 180),
\* and hues exactly 180 degrees apart give delta = -180.
C12_DeltaRange ==
    call.fn = "lerpAngleDeg" =>
        LET delta == lerpAngleDelta(call.args[1], call.args[2])
            a0 == utils_normHueDeg(call.args[1])
            b0 == utils_normHueDeg(call.args[2])
        IN /\ -180 * FloatUnit <= delta /\ delta < 180 * FloatUnit
           /\ Abs(b0 - a0) = 180 * FloatUnit => delta = -180 * FloatUnit

\* C12 as stated: the delta lies in (-180, 180], and hues exactly 180 degrees
\* apart give delta = +180.
C12_DeltaRangeAsStated ==
    call.fn = "lerpAngleDeg" =>
        LET delta == lerpAngleDelta(call.args[1], call.args[2])
            a0 == utils_normHueDeg(call.args[1])
            b0 == utils_normHueDeg(call.args[2])
        IN /\ -180 * FloatUnit < delta /\ delta <= 180 * FloatUnit
           /\ Abs(b0 - a0) = 180 * FloatUnit => delta = 180 * FloatUnit

\* hues half a turn apart, given outside [0,360), were interpolated
C12_Witness ==
    /\ call.fn = "lerpAngleDeg"
    /\ call.args = <<Flt(-10 * FloatUnit), Flt(170 * FloatUnit), FloatUnit \div 2>>
    /\ lerpAngleDelta(call.args[1], call.args[2]) = -180 * FloatUnit
    /\ ret = 260 * FloatUnit

\* C13: lerpAngleDeg takes the shorter arc: for t in [0,1] the result is in [0,360),
\* is the normalized a at t = 0 and the normalized b at t = 1 (up to the rounding of
\* the arithmetic), and is never farther than 180 * t degrees from a around the
\* circle; 350 to 10 at t = 0.5 yields 0.
C13_ShortestArc ==
    call.fn = "lerpAngleDeg" =>
        LET a0 == utils_normHueDeg(call.args[1])
            b0 == utils_normHueDeg(call.args[2])
            t == call.args[3]
        IN /\ 0 <= ret /\ ret < OneTurn
           /\ t = 0 => AroundCircle(ret, a0) <= HueSpacing
           /\ t = FloatUnit => AroundCircle(ret, b0) <= HueSpacing
           /\ AroundCircle(ret, a0) <= MulF(180 * FloatUnit, t) + HueSpacing
           /\ (a0 = 350 * FloatUnit /\ b0 = 10 * FloatUnit /\ 2 * t = FloatUnit) => ret = 0

\* C14: normHueDeg returns, for every finite input, a value in [0,360) equal to
\* ((deg mod 360) + 360) mod 360, and is idempotent.
C14_NormalizedIntoOneTurn ==
    (call.fn = "normHueDeg" /\ utils_isFiniteNumber(call.args[1])) =>
        /\ 0 <= ret /\ ret < OneTurn
        /\ ret = Rem(AddF(Rem(call.args[1][2], OneTurn), OneTurn), OneTurn)
        /\ utils_normHueDeg(Flt(ret)) = ret

\* ------------------------------------------------------------ properties of css()
\* C15: evaluating a gradient that has zero stops raises a ConfigurationError
\* rather than returning a value.
C15_ZeroStopsRaise ==
    (call.fn = "css" /\ Len(stops) = 0) => ret.err = "ConfigurationError"

\* C17: css() renders every stop position by the dual convention (position * 100
\* and '%' for a position <= 1, the position and '%' for a position > 1), the stops
\* in ascending order of position after 'linear-gradient(<angle>deg in <space>, '.
C17_DualConvention ==
    (call.fn = "css" /\ Len(stops) > 0) =>
        /\ ret.err = "none"
        /\ SubSeq(ret.val, 1, 5) =
               <<"linear-gradient(", NumberToString(angle), "deg in ",
                 IF call.args[1] = "" THEN mode ELSE call.args[1], ", ">>
        /\ Len(ret.val[6]) = Len(stops)
        /\ \A i \in 1..Len(stops) :
               ret.val[6][i][2] =
                   <<NumberToString(IF stops[i].pos <= Scale THEN stops[i].pos * 100
                                    ELSE stops[i].pos), "%">>
        /\ \A i \in 1..Len(stops) - 1 : stops[i].pos <= stops[i + 1].pos

\* ------------------------------------------------------------ properties of gradients on one array
StopsOf(g) == arrays[refs[g].stops]
CountIn(seq, x) == Cardinality({i \in 1..Len(seq) : seq[i] = x})
Ascending(seq) == \A i \in 1..(Len(seq) - 1) : seq[i].pos <= seq[i + 1].pos
Added == [color |-> hlast.color, pos |-> hlast.pos]

\* C21: a LinearGradient keeps the array passed to its constructor and sorts it in
\* place: construction makes no other array and leaves the caller's array holding
\* the same stops in ascending order; an addStop on such a gradient leaves the
\* caller's array holding the stops it had and the added one, in ascending order;
\* and at all times the stops of every gradient built from the caller's array are
\* the caller's array, so two such gradients have one stop list.
C21_SharesCallersArray ==
    /\ \A g \in Gradients : refs[g].arg = "given" => StopsOf(g) = arrays[1]
    /\ (hlast.op = "new" /\ hlast.arg = "given") =>
           /\ Len(arrays) = Len(hlast.before)
           /\ Ascending(arrays[1])
           /\ \A x \in StopValues : CountIn(arrays[1], x) = CountIn(hlast.before[1], x)
    /\ (hlast.op = "addStop" /\ hlast.arg = "given") =>
           /\ Ascending(arrays[1])
           /\ \A x \in StopValues :
                  CountIn(arrays[1], x) =
                      CountIn(hlast.before[1], x) + (IF x = Added THEN 1 ELSE 0)

\* two gradients were built from the caller's out-of-order array, and a stop added
\* to the first went below the last stop of the array, which the second now has too
C21_Witness ==
    /\ hlast.op = "addStop" /\ hlast.g = "g1"
    /\ refs["g1"].arg = "given" /\ refs["g2"].arg = "given"
    /\ Len(hlast.before[1]) = 2
    /\ hlast.before[1][1].pos < hlast.before[1][2].pos
    /\ arrays[1] # Append(hlast.before[1], Added)
    /\ Len(StopsOf("g2")) = 3
    /\ \E i \in 1..2 : StopsOf("g2")[i] = Added

====
